---- MODULE Spec2Model ----
(***************************************************************************)
(* sane-web-scanner: the scan orchestrator of src/main.rs as a state       *)
(* machine.  One run is either the batch scan (scan_to_file -> scan) or    *)
(* one GET /scan.bmp request (scan_service -> scan_stream_bmp: a blocking  *)
(* worker, an unbounded mpsc channel and the StreamingReceiver consumer).  *)
(* Every driver call the program issues is appended to `log`, in program   *)
(* order, together with the channel sends and the returns of scan().       *)
(***************************************************************************)
EXTENDS Integers, Sequences, FiniteSets, TLC

VARIABLES
    mode,               \* "batch" (--just-scan) or "stream" (GET /scan.bmp)
    pc,                 \* position of the scanning thread
    log,                \* driver calls, sends and returns, in program order
    libsane,            \* a sane::libsane value is alive (its Drop is owed)
    device,             \* a Device value is alive (its Drop is owed)
    option_count_value, \* value read from option 0
    option_num,         \* loop variable of the option loop
    desc,               \* option descriptor under work
    additional_status,  \* set-info of the latest SET_VALUE, while
                        \* try_start_scanning runs
    width, height,      \* geometry as u32 (little-endian bytes)
    reads,              \* number of good reads so far
    src_pos,            \* number of bytes the driver has handed out
    buf,                \* bytes of the last good read
    image,              \* batch: accumulated image
    err,                \* error value on its way to the caller
    err_status,         \* the SANE_Status its message was formatted with
    channel,            \* items queued in the unbounded channel
    sent,               \* every item ever accepted by the channel
    delivered,          \* items handed to the consumer by poll_next
    sender,             \* the Sender half is alive
    receiver,           \* the StreamingReceiver is alive
    stream_ended,       \* poll_next has returned Ready(None)
    result,             \* batch: what scan() returned
    resp                \* HTTP response head of scan_service

vars == <<mode, pc, log, libsane, device, option_count_value, option_num, desc,
          additional_status,
          width, height, reads, src_pos, buf, image, err, err_status, channel,
          sent,
          delivered, sender, receiver, stream_ended, result, resp>>

(***************************************************************************)
(* Bounds of the model.                                                    *)
(***************************************************************************)
MaxDevices == 1        \* sane_get_devices reports 0..MaxDevices devices
MaxOptionCount == 3    \* option 0 reports a count in 0..MaxOptionCount
MaxReads == 2          \* at most this many good reads per scan
Mebi == 1              \* the model's stand-in for 1024 * 1024 bytes
MaxSwapLen == 6        \* longest buffer given to rgb_to_bgr / encode_as_bmp
                       \* on its own
ChannelWindow == 2     \* a candidate for a fixed window of queued chunks

(***************************************************************************)
(* Program constants.                                                      *)
(***************************************************************************)
BMP_FILE_HEADER_SIZE == 2 + 4 + 2 + 2 + 4
BMP_IMAGE_HEADER_SIZE == 4 + 4 + 4 + 2 + 2 + 4 + 4 + 4 + 4 + 4 + 4
BMP_HEADER_SIZE == BMP_FILE_HEADER_SIZE + BMP_IMAGE_HEADER_SIZE
TargetDpi == 300
PixelStride == 3
BatchBufCap == Mebi                 \* Vec::with_capacity(1024 * 1024)
StreamBufCap == PixelStride * Mebi  \* Vec::with_capacity(3 * 1024 * 1024)

\* SANE_Status values the model distinguishes.
GOOD == "good"
EOF == "eof"
IO_ERROR == "io_error"
INVAL == "inval"
Statuses == {GOOD, IO_ERROR, INVAL}
ReadStatuses == {GOOD, EOF, IO_ERROR}
\* No status in the error message (or no error).
NoStatus == ""

\* (pixels_per_line, lines) pairs sane_get_parameters may report; lines = -1
\* is the driver's "not known yet".
Geometries == {<<0, 0>>, <<2, 1>>, <<1, -1>>}

(***************************************************************************)
(* u32 / i32 arithmetic on little-endian byte quadruples (to_le_bytes).    *)
(***************************************************************************)
U32(n) == <<n % 256, (n \div 256) % 256, (n \div 65536) % 256,
            (n \div 16777216) % 256>>

\* `x as u32` for an i32 x.
I32AsU32(x) ==
    IF x >= 0 THEN U32(x)
    ELSE LET m == (x + 2147483647) + 1
             b == U32(m)
         IN  <<b[1], b[2], b[3], b[4] + 128>>

RECURSIVE AddDigits(_, _, _, _)
AddDigits(a, b, k, carry) ==
    IF k > 4 THEN <<carry>>
    ELSE LET t == a[k] + b[k] + carry
         IN  <<t % 256>> \o AddDigits(a, b, k + 1, t \div 256)

\* a + b on u32: the wrapped value and whether it overflowed.
U32Add(a, b) ==
    LET d == AddDigits(a, b, 1, 0)
    IN  [val |-> SubSeq(d, 1, 4), overflow |-> d[5] # 0]

RECURSIVE ColumnSum(_, _, _, _)
ColumnSum(a, b, k, i) ==
    IF i > 4 THEN 0
    ELSE (IF k - i + 1 >= 1 /\ k - i + 1 <= 4 THEN a[i] * b[k - i + 1] ELSE 0)
         + ColumnSum(a, b, k, i + 1)

RECURSIVE MulDigits(_, _, _, _)
MulDigits(a, b, k, carry) ==
    IF k > 8 THEN <<>>
    ELSE LET t == ColumnSum(a, b, k, 1) + carry
         IN  <<t % 256>> \o MulDigits(a, b, k + 1, t \div 256)

\* a * b on u32: the wrapped value and whether it overflowed.
U32Mul(a, b) ==
    LET d == MulDigits(a, b, 1, 0)
    IN  [val |-> SubSeq(d, 1, 4),
         overflow |-> \E k \in 5..8 : d[k] # 0]

\* -(h as i32): two's complement negation; overflows only for i32::MIN.
I32Neg(h) ==
    LET c == <<255 - h[1], 255 - h[2], 255 - h[3], 255 - h[4]>>
    IN  [val |-> U32Add(c, U32(1)).val,
         overflow |-> h = <<0, 0, 0, 128>>]

U16(n) == <<n % 256, (n \div 256) % 256>>

(***************************************************************************)
(* The BMP header and the channel swap.                                    *)
(***************************************************************************)
\* The closure encode_as_bmp of scan_stream_bmp: the 54 header bytes, with
\* BMP_HEADER_SIZE + img_len and -(height as i32) in wrapping arithmetic.
encode_bmp_header(img_len, w, h) ==
    <<66, 77>> \o U32Add(U32(BMP_HEADER_SIZE), img_len).val
    \o <<0, 0>> \o <<0, 0>> \o U32(BMP_HEADER_SIZE)
    \o U32(BMP_IMAGE_HEADER_SIZE) \o w \o I32Neg(h).val
    \o U16(1) \o U16(24)
    \o U32(0) \o U32(0) \o U32(0) \o U32(0) \o U32(0) \o U32(0)

\* width * height * 3 as the header closure's caller computes it.
stream_img_len(w, h) ==
    LET wh == U32Mul(w, h)
        whs == U32Mul(wh.val, U32(PixelStride))
    IN  [val |-> whs.val, overflow |-> wh.overflow \/ whs.overflow]

\* Some arithmetic of the header overflows (a panic when overflow checks
\* are compiled in, a wrap otherwise).
header_overflows(w, h) ==
    \/ stream_img_len(w, h).overflow
    \/ U32Add(U32(BMP_HEADER_SIZE), stream_img_len(w, h).val).overflow
    \/ I32Neg(h).overflow

\* A swap that takes the whole buffer for one pixel: its first and last
\* bytes change places.
rgb_to_bgr_whole_buffer(img) ==
    [i \in 1..Len(img) |->
        IF Len(img) < PixelStride THEN img[i]
        ELSE IF i = 1 THEN img[Len(img)]
        ELSE IF i = Len(img) THEN img[1]
        ELSE img[i]]

\* A transform that rotates each complete 3-byte group instead of swapping
\* its ends.
rgb_to_bgr_rotate(img) ==
    [i \in 1..Len(img) |->
        IF i > (Len(img) \div PixelStride) * PixelStride THEN img[i]
        ELSE IF i % PixelStride = 0 THEN img[i - 2]
        ELSE img[i + 1]]

\* chunks_exact_mut(3): every complete 3-byte group has bytes 0 and 2
\* swapped, a trailing incomplete group is left alone.
rgb_to_bgr(img) ==
    [i \in 1..Len(img) |->
        IF i > (Len(img) \div PixelStride) * PixelStride THEN img[i]
        ELSE IF i % PixelStride = 1 THEN img[i + 2]
        ELSE IF i % PixelStride = 0 THEN img[i - 2]
        ELSE img[i]]

\* An encoder whose file_size leaves out BMP_HEADER_SIZE.
encode_as_bmp_pixel_size(img, w, h) ==
    LET hd == encode_bmp_header(U32(Len(img)), w, h)
    IN  SubSeq(hd, 1, 2) \o U32(Len(img)) \o SubSeq(hd, 7, Len(hd)) \o img

\* fn encode_as_bmp(img, (width, height), out): the same header writes as
\* the closure, with img.len() as u32 for the length, then the pixel bytes.
encode_as_bmp(img, w, h) == encode_bmp_header(U32(Len(img)), w, h) \o img

\* The n bytes the driver hands out next: the scanner's byte stream is
\* 1, 2, 3, ... (mod 256), so every byte is told apart by its position.
driver_bytes(pos, n) == [i \in 1..n |-> (pos + i) % 256]

(***************************************************************************)
(* Events of the log and items of the channel.                             *)
(***************************************************************************)
Ev(c, i, s) == [call |-> c, idx |-> i, status |-> s]

OkHeader(b) == [kind |-> "header", bytes |-> b, msg |-> ""]
OkData(b) == [kind |-> "data", bytes |-> b, msg |-> ""]
ErrItem(e) == [kind |-> "err", bytes |-> <<>>, msg |-> e]

\* A Device whose Drop does not close the handle.
DropDevice_leak(lg, dev) == lg

\* impl Drop for Device: sane_close on the handle.
DropDevice(lg, dev) ==
    IF dev THEN Append(lg, Ev("sane_close", 0, "void")) ELSE lg

\* impl Drop for libsane: sane_exit.
DropLibsane(lg, lib) ==
    IF lib THEN Append(lg, Ev("sane_exit", 0, "void")) ELSE lg

\* Locals dropped in declaration order: the session before the handle.
DropLocals_session_first(lg, dev, lib) == DropDevice(DropLibsane(lg, lib), dev)

\* Locals go out of scope in reverse declaration order: the Device, declared
\* after libsane, is dropped first.
DropLocals(lg, dev, lib) == DropLibsane(DropDevice(lg, dev), lib)

(***************************************************************************)
(* Option descriptors the driver may hand out.                             *)
(***************************************************************************)
OptionNames == {"resolution", "tl-x", "tl-y", "br-x", "br-y", "mode"}
AreaNames == {"tl-x", "tl-y", "br-x", "br-y"}
ValueTypes == {"int", "fixed", "string"}
\* "range_quant0" is a range whose quant field is 0; "unknown" is a
\* constraint_type outside the four the match knows.
ConstraintTypes == {"none", "range", "range_quant0", "word_list",
                    "string_list", "unknown"}
Units == {"none", "dpi"}
\* The word lists a "word_list" constraint may carry: one holds the target
\* resolution, one does not.
WordLists == {<<100, 200, 300, 600>>, <<75, 150>>}
Descriptors ==
    {d \in [name : OptionNames, type : ValueTypes, unit : Units,
            constraint : ConstraintTypes, word_list : WordLists \cup {<<>>}] :
        d.word_list # <<>> <=> d.constraint = "word_list"}
NoDesc == [name |-> "", type |-> "", unit |-> "", constraint |-> "",
           word_list |-> <<>>]
NoResp == [status |-> 0, content_type |-> ""]
\* The bits of the info word of SET_VALUE the spec speaks of:
\* SANE_INFO_INEXACT and SANE_INFO_RELOAD_OPTIONS.
SetInfos == [inexact : BOOLEAN, reload_options : BOOLEAN]
NoInfo == [inexact |-> FALSE, reload_options |-> FALSE]

(***************************************************************************)
(* How control leaves a step.  Each sets pc, log, libsane, device, err,    *)
(* err_status, result and sender.                                          *)
(***************************************************************************)
\* The bail! messages that format the `status` the call just made returned
\* ("... {}", status).
MessagesWithStatus == {"Sane status is not good", "Failed to get devices",
                       "Failed to open device",
                       "Failed to get control option (option count)",
                       "Failed to get control option",
                       "Failed to fetch back set dpi setting",
                       "Failed to initiate image acquisition",
                       "Failed to get scan parameters", "Failed to read data"}

\* A message that leaves the status out.
formatted_status_dropped(lg, e) == NoStatus

\* What "{}", status puts into the message e: the status of the call that
\* was logged last.
formatted_status(lg, e) ==
    IF e \in MessagesWithStatus THEN lg[Len(lg)].status ELSE NoStatus

\* The step succeeded: go on with the next statement.
goto(lg, p) ==
    /\ pc' = p
    /\ log' = lg
    /\ UNCHANGED <<libsane, device, err, err_status, result, sender>>

\* bail! inside init_libsane: the local libsane is dropped on the way out.
\* Batch: scan()'s `?` returns the error.  Stream: the closure's match arm
\* sends it next.
bail_init_libsane(lg, e) ==
    /\ libsane' = FALSE
    /\ err' = e
    /\ err_status' = formatted_status(lg, e)
    /\ UNCHANGED <<device, sender>>
    /\ IF mode = "batch"
       THEN /\ log' = Append(DropLibsane(lg, libsane), Ev("return", 0, e))
            /\ result' = e
            /\ pc' = "exit"
       ELSE /\ log' = DropLibsane(lg, libsane)
            /\ result' = result
            /\ pc' = "send_err"

\* bail! inside try_start_scanning, or inside scan()'s read loop: the Device
\* (when one exists) is dropped where the error leaves its scope.  Batch:
\* scan() returns the error, so libsane is dropped as well.  Stream: the
\* closure still holds libsane while its match arm sends the error.
bail(lg, e) ==
    /\ device' = FALSE
    /\ err' = e
    /\ err_status' = formatted_status(lg, e)
    /\ sender' = sender
    /\ IF mode = "batch"
       THEN /\ log' = Append(DropLocals(lg, device, libsane), Ev("return", 0, e))
            /\ libsane' = FALSE
            /\ result' = e
            /\ pc' = "exit"
       ELSE /\ log' = DropDevice(lg, device)
            /\ libsane' = libsane
            /\ result' = result
            /\ pc' = "send_err"

\* A panic unwinds the thread: every live local is dropped, the Sender
\* captured by the closure included.
panic(lg) ==
    /\ log' = DropLocals(Append(lg, Ev("panic", 0, "")), device, libsane)
    /\ device' = FALSE
    /\ libsane' = FALSE
    /\ sender' = FALSE
    /\ UNCHANGED <<err, err_status>>
    /\ result' = IF mode = "batch" THEN "panic" ELSE result
    /\ pc' = "panicked"

optvars == <<option_count_value, option_num, desc, additional_status>>
geovars == <<width, height>>
datavars == <<reads, src_pos, buf, image>>
chanvars == <<channel, sent, delivered, receiver, stream_ended>>

Init ==
    /\ mode \in {"batch", "stream"}
    /\ pc = "idle"
    /\ log = <<>>
    /\ libsane = FALSE
    /\ device = FALSE
    /\ option_count_value = 0
    /\ option_num = 0
    /\ desc = NoDesc
    /\ additional_status = NoInfo
    /\ width = U32(0)
    /\ height = U32(0)
    /\ reads = 0
    /\ src_pos = 0
    /\ buf = <<>>
    /\ image = <<>>
    /\ err = ""
    /\ err_status = NoStatus
    /\ channel = <<>>
    /\ sent = <<>>
    /\ delivered = <<>>
    /\ sender = FALSE
    /\ receiver = FALSE
    /\ stream_ended = FALSE
    /\ result = "none"
    /\ resp = NoResp

(***************************************************************************)
(* Entry points.                                                           *)
(***************************************************************************)
\* main with --just-scan: scan_to_file calls scan().
scan_to_file ==
    /\ mode = "batch"
    /\ pc = "idle"
    /\ goto(log, "libsane_new")
    /\ UNCHANGED <<mode, optvars, geovars, datavars, chanvars, resp>>

\* GET /scan.bmp: scan_stream_bmp creates the channel and spawns the worker,
\* and the handler answers with the receiver as the streaming body.
scan_service ==
    /\ mode = "stream"
    /\ pc = "idle"
    /\ pc' = "libsane_new"
    /\ sender' = TRUE
    /\ receiver' = TRUE
    /\ resp' = [status |-> 200, content_type |-> "image/bmp"]
    /\ UNCHANGED <<mode, log, libsane, device, err, err_status, result, optvars, geovars,
                   datavars, channel, sent, delivered, stream_ended>>

(***************************************************************************)
(* init_libsane.                                                           *)
(***************************************************************************)
libsane_new ==
    /\ pc = "libsane_new"
    /\ \E ok \in BOOLEAN :
        IF ok
        THEN /\ pc' = "sane_init"
             /\ log' = Append(log, Ev("libsane_new", 0, GOOD))
             /\ libsane' = TRUE
             /\ UNCHANGED <<device, err, err_status, result, sender>>
        ELSE bail_init_libsane(Append(log, Ev("libsane_new", 0, IO_ERROR)),
                               "LibraryLoadFailed")
    /\ UNCHANGED <<mode, optvars, geovars, datavars, chanvars, resp>>

sane_init ==
    /\ pc = "sane_init"
    /\ \E status \in Statuses :
        LET lg == Append(log, Ev("sane_init", 0, status))
        IN  IF status # GOOD
            THEN bail_init_libsane(lg, "Sane status is not good")
            ELSE goto(lg, "sane_get_devices")
    /\ UNCHANGED <<mode, optvars, geovars, datavars, chanvars, resp>>

(***************************************************************************)
(* try_start_scanning.                                                     *)
(***************************************************************************)
\* A loop over 1..=option_count_value, its upper end included.
next_option_pc_inclusive(n, count) ==
    IF n <= count THEN "sane_get_option_descriptor" ELSE "sane_start"

\* After the body of the option loop: the next iteration or sane_start.
next_option_pc(n, count) ==
    IF n < count THEN "sane_get_option_descriptor" ELSE "sane_start"

\* What the program uses of the device list: whether device_list[0] exists
\* (1) or the list is empty (0).
first_device(status, device_count) ==
    IF status = GOOD /\ device_count > 0 THEN 1 ELSE 0

\* sane_get_devices without the device_list.is_empty() check.
sane_get_devices_unchecked ==
    /\ pc = "sane_get_devices"
    /\ \E status \in Statuses, device_count \in 0..MaxDevices :
        LET lg == Append(log, Ev("sane_get_devices", first_device(status, device_count), status))
        IN  IF status # GOOD THEN bail(lg, "Failed to get devices")
            ELSE goto(lg, "sane_open")
    /\ UNCHANGED <<mode, optvars, geovars, datavars, chanvars, resp>>

\* sane_get_devices, then the device_list.is_empty() check.
sane_get_devices ==
    /\ pc = "sane_get_devices"
    /\ \E status \in Statuses, device_count \in 0..MaxDevices :
        LET lg == Append(log, Ev("sane_get_devices", first_device(status, device_count), status))
        IN  IF status # GOOD THEN bail(lg, "Failed to get devices")
            ELSE IF device_count = 0 THEN bail(lg, "No scanners found.")
            ELSE goto(lg, "sane_open")
    /\ UNCHANGED <<mode, optvars, geovars, datavars, chanvars, resp>>

\* sane_open(device_list[0].name), then Device::from_raw_handle.
sane_open ==
    /\ pc = "sane_open"
    /\ \E status \in Statuses :
        LET lg == Append(log, Ev("sane_open", 0, status))
        IN  IF status # GOOD THEN bail(lg, "Failed to open device")
            ELSE /\ pc' = "option_count"
                 /\ log' = lg
                 /\ device' = TRUE
                 /\ UNCHANGED <<libsane, err, err_status, result, sender>>
    /\ UNCHANGED <<mode, optvars, geovars, datavars, chanvars, resp>>

\* sane_control_option(handle, 0, GET_VALUE): the option count.
option_count ==
    /\ pc = "option_count"
    /\ \E status \in Statuses, count \in 0..MaxOptionCount :
        LET lg == Append(log, Ev("control_option_get", 0, status))
        IN  IF status # GOOD
            THEN /\ bail(lg, "Failed to get control option (option count)")
                 /\ UNCHANGED optvars
            ELSE /\ goto(lg, next_option_pc(1, count))
                 /\ option_count_value' = count
                 /\ option_num' = 1
                 /\ UNCHANGED <<desc, additional_status>>
    /\ UNCHANGED <<mode, geovars, datavars, chanvars, resp>>

\* One pass of `for option_num in 1..option_count_value` up to the dispatch
\* on the option's name: the descriptor fetch, the logging of its
\* constraint, and the choice of the branch.
sane_get_option_descriptor ==
    /\ pc = "sane_get_option_descriptor"
    /\ \/ \* a null descriptor
          /\ bail(Append(log, Ev("sane_get_option_descriptor", option_num, "null")),
                  "Failed to get option count")
          /\ UNCHANGED optvars
       \/ \E d \in Descriptors :
            LET lg == Append(log, Ev("sane_get_option_descriptor", option_num, GOOD))
            IN  CASE d.constraint = "unknown" ->
                       /\ bail(lg, "Unknown constraint type")
                       /\ UNCHANGED optvars
                  [] d.constraint = "range_quant0" ->
                       \* (*range).max / (*range).quant divides by zero
                       /\ panic(lg)
                       /\ UNCHANGED optvars
                  [] OTHER ->
                       IF d.name = "resolution"
                       THEN IF d.type \in {"int", "fixed"}
                            THEN /\ goto(lg, "set_resolution")
                                 /\ desc' = d
                                 /\ UNCHANGED <<option_count_value, option_num,
                                                additional_status>>
                            ELSE /\ bail(lg, "Resolution type should only be either int or fixed")
                                 /\ UNCHANGED optvars
                       ELSE IF d.name \in AreaNames
                       THEN /\ goto(lg, "get_area")
                            /\ UNCHANGED optvars
                       ELSE /\ goto(lg, next_option_pc(option_num + 1, option_count_value))
                            /\ option_num' = option_num + 1
                            /\ UNCHANGED <<option_count_value, desc,
                                           additional_status>>
    /\ UNCHANGED <<mode, geovars, datavars, chanvars, resp>>

\* SET_VALUE without the read-back: the loop body ends after the set.
set_resolution_no_readback ==
    /\ pc = "set_resolution"
    /\ \E status \in Statuses, info \in SetInfos :
        LET lg == Append(log, Ev("control_option_set", option_num, status))
        IN  IF status # GOOD
            THEN /\ bail(lg, "Failed to get control option")
                 /\ UNCHANGED optvars
            ELSE /\ goto(lg, next_option_pc(option_num + 1, option_count_value))
                 /\ option_num' = option_num + 1
                 /\ additional_status' = info
                 /\ desc' = NoDesc
                 /\ UNCHANGED option_count_value
    /\ UNCHANGED <<mode, geovars, datavars, chanvars, resp>>

\* sane_control_option(handle, option_num, SET_VALUE, 300): the driver
\* fills in additional_status, which is logged and not looked at.
set_resolution ==
    /\ pc = "set_resolution"
    /\ \E status \in Statuses, info \in SetInfos :
        LET lg == Append(log, Ev("control_option_set", option_num, status))
        IN  IF status # GOOD
            THEN /\ bail(lg, "Failed to get control option")
                 /\ UNCHANGED optvars
            ELSE /\ goto(lg, "get_resolution")
                 /\ additional_status' = info
                 /\ UNCHANGED <<option_count_value, option_num, desc>>
    /\ UNCHANGED <<mode, geovars, datavars, chanvars, resp>>

\* The read-back of the dpi that was set; ends the loop body.
get_resolution ==
    /\ pc = "get_resolution"
    /\ \E status \in Statuses :
        LET lg == Append(log, Ev("control_option_get", option_num, status))
        IN  IF status # GOOD
            THEN /\ bail(lg, "Failed to fetch back set dpi setting")
                 /\ UNCHANGED optvars
            ELSE /\ goto(lg, next_option_pc(option_num + 1, option_count_value))
                 /\ option_num' = option_num + 1
                 /\ desc' = NoDesc
                 /\ UNCHANGED <<option_count_value, additional_status>>
    /\ UNCHANGED <<mode, geovars, datavars, chanvars, resp>>

\* The tl-x / tl-y / br-x / br-y branches: one GET_VALUE each.
get_area ==
    /\ pc = "get_area"
    /\ \E status \in Statuses :
        LET lg == Append(log, Ev("control_option_get", option_num, status))
        IN  IF status # GOOD
            THEN /\ bail(lg, "Failed to get control option")
                 /\ UNCHANGED optvars
            ELSE /\ goto(lg, next_option_pc(option_num + 1, option_count_value))
                 /\ option_num' = option_num + 1
                 /\ UNCHANGED <<option_count_value, desc, additional_status>>
    /\ UNCHANGED <<mode, geovars, datavars, chanvars, resp>>

\* sane_start whose status is not looked at.
sane_start_unchecked ==
    /\ pc = "sane_start"
    /\ \E status \in Statuses :
        goto(Append(log, Ev("sane_start", 0, status)), "sane_get_parameters")
    /\ UNCHANGED <<mode, optvars, geovars, datavars, chanvars, resp>>

\* libsane.sane_start(device_handle.0) and the check of its status.
sane_start ==
    /\ pc = "sane_start"
    /\ \E status \in Statuses :
        LET lg == Append(log, Ev("sane_start", 0, status))
        IN  IF status # GOOD
            THEN bail(lg, "Failed to initiate image acquisition")
            ELSE goto(lg, "sane_get_parameters")
    /\ UNCHANGED <<mode, optvars, geovars, datavars, chanvars, resp>>

\* sane_get_parameters and the return of (device_handle, width, height).
sane_get_parameters ==
    /\ pc = "sane_get_parameters"
    /\ \E status \in Statuses, g \in Geometries :
        LET lg == Append(log, Ev("sane_get_parameters", 0, status))
        IN  IF status # GOOD
            THEN /\ bail(lg, "Failed to get scan parameters")
                 /\ UNCHANGED <<geovars, additional_status>>
            ELSE /\ goto(lg, IF mode = "batch" THEN "sane_read" ELSE "send_header")
                 /\ width' = I32AsU32(g[1])
                 /\ height' = I32AsU32(g[2])
                 /\ additional_status' = NoInfo
    /\ UNCHANGED <<mode, option_count_value, option_num, desc, datavars,
                   chanvars, resp>>

(***************************************************************************)
(* The channel.                                                            *)
(***************************************************************************)
\* A channel of capacity ChannelWindow that sheds what does not fit.
enqueue_bounded(q, item) == IF Len(q) >= ChannelWindow THEN q ELSE Append(q, item)

\* UnboundedSender::send: the item is queued, whatever the queue holds.
enqueue(q, item) == Append(q, item)

\* sender.send(item).unwrap(): queues the item while the receiver lives; with
\* the receiver gone send returns Err and unwrap panics.
send(item, p) ==
    IF receiver
    THEN /\ channel' = enqueue(channel, item)
         /\ sent' = Append(sent, item)
         /\ goto(Append(log, Ev("send", 0, item.kind)), p)
    ELSE /\ panic(Append(log, Ev("send", 0, "closed")))
         /\ UNCHANGED <<channel, sent>>

(***************************************************************************)
(* scan_stream_bmp: the worker after try_start_scanning.                   *)
(***************************************************************************)
\* The Err arms of the two matches: sender.send(Err(e)).unwrap(); return.
send_err ==
    /\ pc = "send_err"
    /\ send(ErrItem(err), "return")
    /\ UNCHANGED <<mode, optvars, geovars, datavars, delivered, receiver,
                   stream_ended, resp>>

\* The header is encoded into a Vec (write_all on a Vec cannot fail) and
\* sent.  With overflow checks compiled in, an overflowing width * height * 3,
\* BMP_HEADER_SIZE + img_len or -(height as i32) panics first.
send_header ==
    /\ pc = "send_header"
    /\ \/ /\ header_overflows(width, height)
          /\ panic(log)
          /\ UNCHANGED <<channel, sent>>
       \/ send(OkHeader(encode_bmp_header(stream_img_len(width, height).val,
                                          width, height)), "sane_read")
    /\ UNCHANGED <<mode, optvars, geovars, datavars, delivered, receiver,
                   stream_ended, resp>>

\* buf.clone(), rgb_to_bgr, send.
send_data ==
    /\ pc = "send_data"
    /\ send(OkData(rgb_to_bgr(buf)), "sane_read")
    /\ UNCHANGED <<mode, optvars, geovars, datavars, delivered, receiver,
                   stream_ended, resp>>

\* The catch-all arm without its break: the loop goes on reading.
send_read_err_continue ==
    /\ pc = "send_read_err"
    /\ send(ErrItem(err), "sane_read")
    /\ UNCHANGED <<mode, optvars, geovars, datavars, delivered, receiver,
                   stream_ended, resp>>

\* The catch-all arm of the read loop's match: send the error, break.
send_read_err ==
    /\ pc = "send_read_err"
    /\ send(ErrItem(err), "sane_cancel")
    /\ UNCHANGED <<mode, optvars, geovars, datavars, delivered, receiver,
                   stream_ended, resp>>

(***************************************************************************)
(* The read loop of scan() and of scan_stream_bmp.                         *)
(***************************************************************************)
buf_capacity == IF mode = "batch" THEN BatchBufCap ELSE StreamBufCap

\* The byte counts sane_read reports in the model: nothing, a single byte,
\* the whole buffer.
bytes_written_values(cap) == {0, 1, cap}

\* An EOF arm without its break: the stream loop goes on to the send.
on_eof_fall_through == IF mode = "batch" THEN "sane_cancel" ELSE "send_data"

\* SANE_STATUS_EOF => break: on to the statement after the loop.
on_eof == "sane_cancel"

sane_read ==
    /\ pc = "sane_read"
    /\ \/ \* SANE_STATUS_GOOD with bytes_written = n
          /\ reads < MaxReads
          /\ \E n \in bytes_written_values(buf_capacity) :
               LET data == driver_bytes(src_pos, n)
               IN  /\ buf' = data
                   /\ src_pos' = src_pos + n
                   /\ reads' = reads + 1
                   /\ image' = IF mode = "batch" THEN image \o data ELSE image
          /\ goto(Append(log, Ev("sane_read", 0, GOOD)),
                  IF mode = "batch" THEN "sane_read" ELSE "send_data")
       \/ \* SANE_STATUS_EOF: break
          /\ goto(Append(log, Ev("sane_read", 0, EOF)), on_eof)
          /\ UNCHANGED datavars
       \/ \* any other status
          /\ \E status \in ReadStatuses \ {GOOD, EOF} :
               LET lg == Append(log, Ev("sane_read", 0, status))
               IN  IF mode = "batch"
                   THEN bail(lg, "Failed to read data")
                   ELSE /\ pc' = "send_read_err"
                        /\ log' = lg
                        /\ err' = "Failed to read data"
                        /\ err_status' = formatted_status(lg, "Failed to read data")
                        /\ UNCHANGED <<libsane, device, result, sender>>
          /\ UNCHANGED datavars
    /\ UNCHANGED <<mode, optvars, geovars, chanvars, resp>>

\* After the loop: libsane.sane_cancel(device_handle.0).
sane_cancel ==
    /\ pc = "sane_cancel"
    /\ goto(Append(log, Ev("sane_cancel", 0, "void")), "return")
    /\ UNCHANGED <<mode, optvars, geovars, datavars, chanvars, resp>>

\* scan() returns Ok(ScanImage): its locals are dropped.
scan_return ==
    /\ mode = "batch"
    /\ pc = "return"
    /\ log' = Append(DropLocals(log, device, libsane), Ev("return", 0, "ok"))
    /\ device' = FALSE
    /\ libsane' = FALSE
    /\ result' = "ok"
    /\ pc' = "scanned"
    /\ UNCHANGED <<mode, err, err_status, sender, optvars, geovars, datavars, chanvars, resp>>

\* scan_to_file after scan(): rgb_to_bgr on the image, then save_as_bmp,
\* which may fail with an io error.
save_as_bmp ==
    /\ pc = "scanned"
    /\ image' = rgb_to_bgr(image)
    /\ \E ok \in BOOLEAN : result' = IF ok THEN "saved" ELSE "save failed"
    /\ pc' = "exit"
    /\ UNCHANGED <<mode, log, libsane, device, err, err_status, sender, optvars, geovars,
                   reads, src_pos, buf, chanvars, resp>>

\* The closure of spawn_blocking ends (after the loop, or by `return` in an
\* Err arm): its locals and the captured Sender are dropped.
worker_return ==
    /\ mode = "stream"
    /\ pc = "return"
    /\ log' = DropLocals(log, device, libsane)
    /\ device' = FALSE
    /\ libsane' = FALSE
    /\ sender' = FALSE
    /\ pc' = "done"
    /\ UNCHANGED <<mode, err, err_status, result, optvars, geovars, datavars, chanvars, resp>>

(***************************************************************************)
(* The consumer of the stream.                                             *)
(***************************************************************************)
\* A receiver that hands out the newest item first.
dequeue_item_newest(q) == q[Len(q)]

\* What poll_recv takes from the queue.
dequeue_item(q) == Head(q)
dequeue_rest(q) == Tail(q)

\* StreamingReceiver::poll_next = UnboundedReceiver::poll_recv: the oldest
\* queued item, or None once the queue is empty and the Sender is gone
\* (Pending otherwise: no step).
poll_next ==
    /\ receiver
    /\ ~stream_ended
    /\ \/ /\ channel # <<>>
          /\ delivered' = Append(delivered, dequeue_item(channel))
          /\ channel' = dequeue_rest(channel)
          /\ UNCHANGED stream_ended
       \/ /\ channel = <<>>
          /\ ~sender
          /\ stream_ended' = TRUE
          /\ UNCHANGED <<channel, delivered>>
    /\ UNCHANGED <<mode, pc, log, libsane, device, err, err_status, result, sender, sent,
                   receiver, optvars, geovars, datavars, resp>>

\* The response body is dropped (the client went away, or the body was read
\* to its end): the receiver and whatever is still queued are gone.
drop_receiver ==
    /\ receiver
    /\ receiver' = FALSE
    /\ channel' = <<>>
    /\ UNCHANGED <<mode, pc, log, libsane, device, err, err_status, result, sender, sent,
                   delivered, stream_ended, optvars, geovars, datavars, resp>>

Next ==
    \/ scan_to_file
    \/ scan_service
    \/ libsane_new
    \/ sane_init
    \/ sane_get_devices
    \/ sane_open
    \/ option_count
    \/ sane_get_option_descriptor
    \/ set_resolution
    \/ get_resolution
    \/ get_area
    \/ sane_start
    \/ sane_get_parameters
    \/ send_err
    \/ send_header
    \/ send_data
    \/ send_read_err
    \/ sane_read
    \/ sane_cancel
    \/ scan_return
    \/ save_as_bmp
    \/ worker_return
    \/ poll_next
    \/ drop_receiver

Spec == Init /\ [][Next]_vars

(***************************************************************************)
(* rgb_to_bgr and encode_as_bmp on their own: any buffer, any geometry.    *)
(***************************************************************************)
PixelBytes == {0, 128, 255}
RECURSIVE Buffers(_)
\* The byte sequences of length n.
Buffers(n) ==
    IF n = 0 THEN {<<>>}
    ELSE {Append(b, x) : b \in Buffers(n - 1), x \in PixelBytes}

PureInit ==
    /\ mode = "pure"
    /\ pc = "pure"
    /\ \E n \in 0..MaxSwapLen : buf \in Buffers(n)
    /\ \E g \in Geometries : width = I32AsU32(g[1]) /\ height = I32AsU32(g[2])
    /\ image = <<>>
    /\ src_pos = 0
    /\ reads = 0
    /\ log = <<>>
    /\ libsane = FALSE
    /\ device = FALSE
    /\ option_count_value = 0
    /\ option_num = 0
    /\ desc = NoDesc
    /\ additional_status = NoInfo
    /\ err = ""
    /\ err_status = NoStatus
    /\ channel = <<>>
    /\ sent = <<>>
    /\ delivered = <<>>
    /\ sender = FALSE
    /\ receiver = FALSE
    /\ stream_ended = FALSE
    /\ result = "none"
    /\ resp = NoResp

purevars == <<mode, log, libsane, device, err, err_status, result, sender, optvars,
              geovars, reads, buf, chanvars, resp>>

\* The stream loop's use of rgb_to_bgr: the next chunk of whole pixels is
\* cloned and swapped on its own, and goes out after the chunks before it.
swap_chunk ==
    /\ pc \in {"pure", "chunks"}
    /\ \E k \in 1..(MaxSwapLen \div PixelStride) :
          /\ src_pos + PixelStride * k <= Len(buf)
          /\ image' = image \o rgb_to_bgr(SubSeq(buf, src_pos + 1,
                                                 src_pos + PixelStride * k))
          /\ src_pos' = src_pos + PixelStride * k
    /\ pc' = "chunks"
    /\ UNCHANGED purevars

\* rgb_to_bgr(&mut image) on the whole buffer, and once more on its result.
swap_again ==
    /\ pc \in {"pure", "swapped_once"}
    /\ image' = rgb_to_bgr(IF pc = "pure" THEN buf ELSE image)
    /\ pc' = IF pc = "pure" THEN "swapped_once" ELSE "swapped_twice"
    /\ UNCHANGED <<purevars, src_pos>>

\* encode_as_bmp(&buf, (width, height), &mut out) into a Vec.
encode ==
    /\ pc = "pure"
    /\ image' = encode_as_bmp(buf, width, height)
    /\ pc' = "encoded"
    /\ UNCHANGED <<purevars, src_pos>>

PureNext ==
    \/ swap_chunk
    \/ swap_again
    \/ encode

PureSpec == PureInit /\ [][PureNext]_vars

(***************************************************************************)
(* Vocabulary of the properties.                                           *)
(***************************************************************************)
Calls(c) == {i \in DOMAIN log : log[i].call = c}
GoodCalls(c) == {i \in Calls(c) : log[i].status = GOOD}
HandleCalls == {"control_option_get", "control_option_set",
                "sane_get_option_descriptor", "sane_start",
                "sane_get_parameters", "sane_read", "sane_cancel"}
HandleUses == {i \in DOMAIN log : log[i].call \in HandleCalls}
\* scan() has returned or unwound; the worker closure has ended.
ThreadFinished == pc \in {"exit", "scanned", "done", "panicked"}
\* The read loop was entered: sane_read was called at least once.
Draining == Calls("sane_read") # {}
\* The error reaches the caller: scan() returns it, or it is put on the
\* channel.
Surfaced == {i \in DOMAIN log :
                \/ log[i].call = "return" /\ log[i].status # "ok"
                \/ log[i].call = "send" /\ log[i].status = "err"}
KindCount(q, k) == Cardinality({i \in DOMAIN q : q[i].kind = k})
IsPrefix(p, q) == Len(p) <= Len(q) /\ p = SubSeq(q, 1, Len(p))

RECURSIVE DataBytes(_)
\* The pixel bytes of the data chunks of q, with the channel swap undone
\* chunk by chunk, in order.
DataBytes(q) ==
    IF q = <<>> THEN <<>>
    ELSE (IF Head(q).kind = "data" THEN rgb_to_bgr(Head(q).bytes) ELSE <<>>)
         \o DataBytes(Tail(q))

(***************************************************************************)
(* C1. Once sane_open has succeeded, sane_close is called on the handle    *)
(* exactly once on every exit path of scan() and of the streaming worker:  *)
(* never before the open, never twice, and once the thread has finished    *)
(* (returned Ok, returned an error, or panicked) exactly once.             *)
(***************************************************************************)
C1_CloseExactlyOnce ==
    /\ Cardinality(Calls("sane_close")) <= Cardinality(GoodCalls("sane_open"))
    /\ Cardinality(GoodCalls("sane_open")) <= 1
    /\ \A c \in Calls("sane_close") : \E o \in GoodCalls("sane_open") : o < c
    /\ device <=> (GoodCalls("sane_open") # {} /\ Calls("sane_close") = {})
    /\ ThreadFinished =>
          Cardinality(Calls("sane_close")) = Cardinality(GoodCalls("sane_open"))

\* The worker panicked with the handle open and the unwinding closed it.
C1_Witness ==
    /\ pc = "panicked"
    /\ GoodCalls("sane_open") # {}
    /\ Cardinality(Calls("sane_close")) = 1

(***************************************************************************)
(* C2. In the batch path and in the streaming path, once the read loop has *)
(* been entered, sane_cancel is called and then sane_close, whether the    *)
(* loop ended with EndOfData or with a read error.                         *)
(***************************************************************************)
C2_CancelThenClose ==
    (ThreadFinished /\ Draining) =>
        \E c \in Calls("sane_cancel"), k \in Calls("sane_close") :
            /\ c < k
            /\ \A r \in Calls("sane_read") : r < c

(***************************************************************************)
(* C3. Whichever step fails, the device handle (sane_close) and the driver *)
(* session (sane_exit) opened before it are closed before the error is     *)
(* surfaced: before scan() returns it (batch), before the Err item is put  *)
(* on the channel (stream).                                                *)
(***************************************************************************)
C3_TeardownBeforeSurfacing ==
    \A s \in Surfaced :
        /\ \A o \in GoodCalls("sane_open") :
              o < s => \E c \in Calls("sane_close") : c < s
        /\ \A n \in GoodCalls("sane_init") :
              n < s => \E x \in Calls("sane_exit") : x < s

(***************************************************************************)
(* C4. sane_exit is called exactly once per scan on every exit path, and   *)
(* the handle's lifetime is nested in the session's: sane_open comes after *)
(* a good sane_init, sane_close comes before sane_exit, no call on the     *)
(* handle comes after sane_close (or before sane_open), and nothing is     *)
(* called after sane_exit.                                                 *)
(***************************************************************************)
C4_SessionNesting ==
    /\ Cardinality(Calls("sane_exit")) <= 1
    /\ Cardinality(Calls("sane_init")) <= 1
    /\ libsane <=> (GoodCalls("libsane_new") # {} /\ Calls("sane_exit") = {})
    /\ ThreadFinished =>
          Cardinality(Calls("sane_exit")) = Cardinality(Calls("sane_init"))
    /\ \A o \in Calls("sane_open") : \E n \in GoodCalls("sane_init") : n < o
    /\ ThreadFinished =>
          \A c \in Calls("sane_close") : \E x \in Calls("sane_exit") : c < x
    /\ \A c \in Calls("sane_close"), x \in Calls("sane_exit") : c < x
    /\ \A u \in HandleUses :
          /\ \E o \in GoodCalls("sane_open") : o < u
          /\ \A c \in Calls("sane_close") : u < c
    /\ \A x \in Calls("sane_exit"), i \in DOMAIN log :
          log[i].call \in HandleCalls \cup {"sane_open", "sane_close", "sane_init",
                                           "sane_get_devices"} => i < x

\* A run that failed after reading, with the handle closed and then the
\* session torn down.
C4_Witness ==
    /\ ThreadFinished
    /\ err = "Failed to read data"
    /\ \E c \in Calls("sane_close"), x \in Calls("sane_exit") : c < x

(***************************************************************************)
(* C5. GET /scan.bmp answers 200 image/bmp only when the scan produces the *)
(* image: when the scan fails before any image data (driver init,          *)
(* enumeration, no scanner, open, options, start, get-parameters) the      *)
(* response is not a 200.                                                  *)
(***************************************************************************)
SetupErrors == {"LibraryLoadFailed", "Sane status is not good",
                "Failed to get devices", "No scanners found.",
                "Failed to open device",
                "Failed to get control option (option count)",
                "Failed to get option count", "Unknown constraint type",
                "Resolution type should only be either int or fixed",
                "Failed to get control option",
                "Failed to fetch back set dpi setting",
                "Failed to initiate image acquisition",
                "Failed to get scan parameters"}

C5_Non200OnFailure ==
    (mode = "stream" /\ err \in SetupErrors) => resp.status # 200

C7_ScanRunsToCompletion ==
    (/\ mode = "stream"
     /\ pc \in {"done", "panicked"}
     /\ ~receiver
     /\ GoodCalls("sane_get_parameters") # {}
     /\ ~header_overflows(width, height))
    => /\ \E r \in Calls("sane_read") : log[r].status \in {EOF, IO_ERROR}
       /\ \E c \in Calls("sane_cancel"), k \in Calls("sane_close") : c < k

(***************************************************************************)
(* C8. The consumer sees the items in production order, and whenever a     *)
(* data chunk has been delivered, the 54-byte header chunk was delivered   *)
(* exactly once and first.                                                 *)
(***************************************************************************)
C8_OrderAndHeaderFirst ==
    /\ IsPrefix(delivered, sent)
    /\ \E n \in 0..src_pos : DataBytes(delivered) = driver_bytes(0, n)
    /\ KindCount(delivered, "data") > 0 =>
          /\ delivered[1].kind = "header"
          /\ Len(delivered[1].bytes) = 54
          /\ KindCount(delivered, "header") = 1

\* The header and two non-empty data chunks have been delivered.
C8_Witness ==
    /\ Len(delivered) >= 3
    /\ delivered[2].kind = "data" /\ delivered[2].bytes # <<>>
    /\ delivered[3].kind = "data" /\ delivered[3].bytes # <<>>

(***************************************************************************)
(* C9. The sequence delivered to the consumer holds at most one Err item   *)
(* and an Err item is its last item: after a failed step exactly one Err   *)
(* is forwarded, nothing is sent after it, and the sequence ends (the      *)
(* Sender is gone once the worker has finished).                           *)
(***************************************************************************)
C9_SingleTerminalErr ==
    /\ \A i \in DOMAIN sent : sent[i].kind = "err" => i = Len(sent)
    /\ \A i \in DOMAIN delivered : delivered[i].kind = "err" => i = Len(delivered)
    /\ KindCount(delivered, "err") <= 1
    /\ (pc = "done" /\ err # "") => KindCount(sent, "err") = 1
    /\ (pc = "done" /\ err = "") => KindCount(sent, "err") = 0
    /\ (mode = "stream" /\ pc \in {"done", "panicked"}) => ~sender
    /\ stream_ended => (channel = <<>> /\ ~sender)
    /\ (stream_ended /\ KindCount(sent, "err") = 1) =>
          delivered[Len(delivered)].kind = "err"

\* A read failed in mid-loop: the consumer got the header, a chunk, the Err
\* and then the end of the stream; the handle was cancelled and closed.
C9_Witness ==
    /\ stream_ended
    /\ Len(delivered) = 3
    /\ delivered[2].kind = "data"
    /\ delivered[3].kind = "err"
    /\ Calls("sane_cancel") # {}
    /\ Calls("sane_close") # {}

(***************************************************************************)
(* C10. When enumeration returns an empty device list, the run fails with  *)
(* "No scanners found." and neither sane_open nor sane_start nor any call  *)
(* on a device handle is issued.                                           *)
(***************************************************************************)
EmptyEnumeration ==
    \E i \in GoodCalls("sane_get_devices") : log[i].idx = 0

C10_NoScannerNoOpen ==
    EmptyEnumeration =>
        /\ err = "No scanners found."
        /\ Calls("sane_open") = {}
        /\ Calls("sane_close") = {}
        /\ HandleUses = {}
        /\ ~device
        /\ mode = "batch" => result = "No scanners found."
        /\ (mode = "stream" /\ pc = "done") => sent = <<ErrItem("No scanners found.")>>

\* The run has ended on an empty device list.
C10_Witness ==
    /\ EmptyEnumeration
    /\ pc \in {"exit", "done"}

(***************************************************************************)
(* C11. Resolution negotiation is best-effort: the option named            *)
(* "resolution" is set to the target (300) at most once, and only if its   *)
(* constraint is a discrete numeric list, its unit is DPI and the list     *)
(* holds the target; in every other case no set_option call is made.       *)
(* (That the scan then goes on without an error fails as well: an option   *)
(* "resolution" of another value type ends the scan with an error.)        *)
(***************************************************************************)
Negotiable(d) ==
    /\ d.constraint = "word_list"
    /\ d.unit = "dpi"
    /\ \E i \in DOMAIN d.word_list : d.word_list[i] = TargetDpi

C11_BestEffortResolution ==
    /\ pc = "get_resolution" => Negotiable(desc)
    /\ \A i \in 1..MaxOptionCount :
          Cardinality({s \in Calls("control_option_set") : log[s].idx = i}) <= 1

(***************************************************************************)
(* C12. After every set_option call both flags of the returned set-info    *)
(* are honoured: once a set has been made, every option used afterwards    *)
(* has its descriptor fetched after the set (so a "reload options" is      *)
(* never met with a stale descriptor), and the value that was set is read  *)
(* back before sane_start (so an "inexact" is never left unread).          *)
(***************************************************************************)
OptionCalls == Calls("control_option_get") \cup Calls("control_option_set")

C12_SetInfoHonoured ==
    \A s \in GoodCalls("control_option_set") :
        /\ \A u \in OptionCalls :
              (u > s /\ log[u].idx # log[s].idx) =>
                  \E f \in GoodCalls("sane_get_option_descriptor") :
                      log[f].idx = log[u].idx /\ s < f /\ f < u
        /\ \A t \in Calls("sane_start") :
              \E g \in GoodCalls("control_option_get") :
                  log[g].idx = log[s].idx /\ s < g /\ g < t

\* The driver answered a set with both flags, a later option was then
\* fetched and read, and sane_start has been called.
C12_Witness ==
    /\ additional_status = [inexact |-> TRUE, reload_options |-> TRUE]
    /\ Calls("sane_start") # {}
    /\ \E s \in GoodCalls("control_option_set"), u \in OptionCalls :
          u > s /\ log[u].idx # log[s].idx

(***************************************************************************)
(* C13. In streaming mode every data chunk handed to rgb_to_bgr and sent   *)
(* downstream has a length that is a multiple of 3, whatever byte counts   *)
(* sane_read reports, so that no chunk splits a pixel.                     *)
(***************************************************************************)
C13_ChunksHoldWholePixels ==
    /\ pc = "send_data" => Len(buf) % PixelStride = 0
    /\ \A i \in DOMAIN sent :
          sent[i].kind = "data" => Len(sent[i].bytes) % PixelStride = 0

(***************************************************************************)
(* C14. If the first sane_read after the start reports EOF, the worker     *)
(* sends exactly one item, the header, and reads no more; the consumer     *)
(* receives that header and no data chunk, and then the stream ends.       *)
(***************************************************************************)
FirstReadIsEOF ==
    /\ Calls("sane_read") # {}
    /\ \A i \in Calls("sane_read") :
          (\A j \in Calls("sane_read") : i <= j) => log[i].status = EOF

C14_EmptyScanIsHeaderOnly ==
    (mode = "stream" /\ FirstReadIsEOF) =>
        /\ Cardinality(Calls("sane_read")) = 1
        /\ Len(sent) = 1
        /\ sent[1].kind = "header"
        /\ KindCount(delivered, "data") = 0
        /\ IsPrefix(delivered, sent)
        /\ stream_ended => delivered = sent

\* The first read reported EOF and the consumer has seen the end of the
\* stream.
C14_Witness ==
    /\ mode = "stream"
    /\ FirstReadIsEOF
    /\ stream_ended
    /\ KindCount(delivered, "header") = 1

(***************************************************************************)
(* C15. For any partition of a byte sequence into chunks whose lengths are *)
(* positive multiples of 3, the concatenation of the chunks, each swapped  *)
(* by rgb_to_bgr on its own, equals rgb_to_bgr of the concatenation.       *)
(* (image holds the swapped chunks so far, buf[1..src_pos] the bytes they  *)
(* were cut from.)                                                         *)
(***************************************************************************)
C15_SwapDistributesOverChunks ==
    pc = "chunks" => image = rgb_to_bgr(SubSeq(buf, 1, src_pos))

\* Two chunks have been swapped one by one, and the swap moved bytes.
C15_Witness ==
    /\ pc = "chunks"
    /\ src_pos = 2 * PixelStride
    /\ Len(buf) = src_pos
    /\ image # buf
    /\ image[1] # image[4]

(***************************************************************************)
(* C16. rgb_to_bgr applied twice to a buffer gives back the buffer, for a  *)
(* buffer of any length, a multiple of 3 or not.                           *)
(***************************************************************************)
C16_SwapIsAnInvolution ==
    pc = "swapped_twice" => image = buf

\* A buffer with a trailing partial pixel, changed by the first swap, has
\* been swapped twice.
C16_Witness ==
    /\ pc = "swapped_twice"
    /\ Len(buf) % PixelStride # 0
    /\ rgb_to_bgr(buf) # buf

(***************************************************************************)
(* C17. encode_as_bmp of a 0 x 0 image without pixel bytes gives exactly   *)
(* 54 bytes, a 14-byte file header and a 40-byte image header, with 54 in  *)
(* the file-size field and in the pixel-data-offset field; for any image   *)
(* the output is 54 bytes longer than the pixel bytes, which follow the    *)
(* header unchanged, and the file-size field holds that length.            *)
(***************************************************************************)
C17_EncodedLength ==
    pc = "encoded" =>
        /\ BMP_FILE_HEADER_SIZE = 14
        /\ BMP_IMAGE_HEADER_SIZE = 40
        /\ Len(image) = 54 + Len(buf)
        /\ SubSeq(image, 1, 2) = <<66, 77>>
        /\ SubSeq(image, 3, 6) = U32(54 + Len(buf))
        /\ SubSeq(image, 11, 14) = U32(54)
        /\ SubSeq(image, 15, 18) = U32(40)
        /\ SubSeq(image, 55, Len(image)) = buf
        /\ (buf = <<>> /\ width = U32(0) /\ height = U32(0)) =>
              image = <<66, 77, 54, 0, 0, 0, 0, 0, 0, 0, 54, 0, 0, 0,
                        40, 0, 0, 0, 0, 0, 0, 0, 0, 0, 0, 0, 1, 0, 24, 0,
                        0, 0, 0, 0, 0, 0, 0, 0, 0, 0, 0, 0,
                        0, 0, 0, 0, 0, 0, 0, 0, 0, 0, 0, 0>>

\* The 0 x 0 image without pixel bytes has been encoded.
C17_Witness ==
    /\ pc = "encoded"
    /\ buf = <<>>
    /\ width = U32(0)
    /\ height = U32(0)
    /\ Len(image) = 54

(***************************************************************************)
(* C18. The driver calls of a run follow the order of the session state    *)
(* machine: sane_init, sane_get_devices, sane_open, option calls,          *)
(* sane_start, sane_get_parameters, sane_read (any number), sane_cancel,   *)
(* sane_close, sane_exit.  Every call up to sane_read is issued only after *)
(* each step before it was made and every call made so far succeeded; the  *)
(* teardown calls (cancel, close, exit) follow wherever the run stopped,   *)
(* close needing a good open and cancel a good start and get-parameters.   *)
(***************************************************************************)
StepOf(c) ==
    CASE c = "sane_init" -> 1
      [] c = "sane_get_devices" -> 2
      [] c = "sane_open" -> 3
      [] c \in {"control_option_get", "control_option_set",
                "sane_get_option_descriptor"} -> 4
      [] c = "sane_start" -> 5
      [] c = "sane_get_parameters" -> 6
      [] c = "sane_read" -> 7
      [] c = "sane_cancel" -> 8
      [] c = "sane_close" -> 9
      [] c = "sane_exit" -> 10
      [] OTHER -> 0
RECURSIVE InSessionOrder(_, _, _)
\* The driver calls log[k..] are in order after a call of step `last`, all
\* calls so far having succeeded iff `good`: no call of an earlier step
\* follows a later one; a call up to sane_read is of the same step as the
\* call before it or of the next one, and is made only if every call so
\* far succeeded.
InSessionOrder(k, last, good) ==
    IF k > Len(log) THEN TRUE
    ELSE LET s == StepOf(log[k].call)
         IN  IF s = 0 THEN InSessionOrder(k + 1, last, good)
             ELSE /\ s >= last
                  /\ s <= 7 => (good /\ s <= last + 1)
                  /\ InSessionOrder(k + 1, s, good /\ log[k].status = GOOD)

C18_SessionOrder ==
    /\ InSessionOrder(1, 0, TRUE)
    /\ \A j \in Calls("sane_cancel") :
          /\ \E i \in GoodCalls("sane_start") : i < j
          /\ \E i \in GoodCalls("sane_get_parameters") : i < j
    /\ \A j \in Calls("sane_close") : \E i \in GoodCalls("sane_open") : i < j

\* A run through every step: an option was set, two reads returned data,
\* the scan was cancelled and the session torn down.
C18_Witness ==
    /\ Calls("control_option_set") # {}
    /\ Cardinality(GoodCalls("sane_read")) >= 2
    /\ Calls("sane_cancel") # {}
    /\ \E c \in Calls("sane_close"), x \in Calls("sane_exit") : c < x

(***************************************************************************)
(* C19. Each read that returns data gives one data chunk with the bytes of *)
(* that read, channel-swapped, so that once the stream has ended the       *)
(* concatenation of the delivered data chunks is rgb_to_bgr of the         *)
(* concatenation of all bytes the driver returned, in read order, nothing  *)
(* dropped or duplicated.                                                  *)
(***************************************************************************)
RECURSIVE ChunkBytes(_)
\* The bytes of the data chunks of q, as sent, in order.
ChunkBytes(q) ==
    IF q = <<>> THEN <<>>
    ELSE (IF Head(q).kind = "data" THEN Head(q).bytes ELSE <<>>)
         \o ChunkBytes(Tail(q))

C19_StreamIsSwapOfScan ==
    (mode = "stream" /\ stream_ended) =>
        /\ KindCount(delivered, "data") = Cardinality(GoodCalls("sane_read"))
        /\ ChunkBytes(delivered) = rgb_to_bgr(driver_bytes(0, src_pos))

(***************************************************************************)
(* C20. The read loop is left only right after a sane_read that reported   *)
(* EOF or a status that is not good, never silently: whenever the worker   *)
(* has finished after entering the loop, its last sane_read did not        *)
(* return good, and nothing but the hand-over of the chunk lies between a  *)
(* good read and the next read.                                            *)
(***************************************************************************)
LastRead == CHOOSE i \in Calls("sane_read") : \A j \in Calls("sane_read") : j <= i

C20_LoopEndsOnEofOrError ==
    (ThreadFinished /\ Draining) => log[LastRead].status # GOOD

(***************************************************************************)
(* C21. A driver call that reports a status that is not good (EOF from     *)
(* sane_read aside) ends the scan with an error whose message carries that *)
(* status: the error is returned by scan(), or handed to the channel.  No  *)
(* call is retried: after the failed call no call of the session up to     *)
(* sane_read is issued again, and an option is accessed twice only as the  *)
(* read-back of the value after its set.                                   *)
(***************************************************************************)
FailedCalls ==
    {i \in DOMAIN log : /\ StepOf(log[i].call) \in 1..7
                        /\ log[i].status \in Statuses \ {GOOD}}

C21_FailureEndsScanNoRetry ==
    /\ \A f \in FailedCalls :
          /\ err \in MessagesWithStatus
          /\ err_status = log[f].status
          /\ \A j \in DOMAIN log : j > f => StepOf(log[j].call) \notin 1..7
          /\ ThreadFinished =>
                \E j \in DOMAIN log :
                    /\ j > f
                    /\ \/ log[j].call = "return" /\ log[j].status = err
                       \/ log[j].call = "send" /\ log[j].status \in {"err", "closed"}
    /\ \A n \in 0..MaxOptionCount :
          LET gets == {i \in Calls("control_option_get") : log[i].idx = n}
              sets == {i \in Calls("control_option_set") : log[i].idx = n}
              fetches == {i \in Calls("sane_get_option_descriptor") : log[i].idx = n}
          IN  /\ Cardinality(gets) <= 1
              /\ Cardinality(sets) <= 1
              /\ Cardinality(fetches) <= 1
              /\ \A s \in sets, g \in gets : s < g /\ log[s].status = GOOD

\* One option was set and read back, the set of the next one failed with
\* SANE_STATUS_INVAL, and the scan has ended with that status in its error.
C21_Witness ==
    /\ ThreadFinished
    /\ err_status = INVAL
    /\ \E f \in FailedCalls : log[f].call = "control_option_set"
    /\ \E s \in GoodCalls("control_option_set"), g \in GoodCalls("control_option_get") :
          log[s].idx = log[g].idx /\ s < g

(***************************************************************************)
(* C22. Option 0 is only read, once, for the option count, and is never    *)
(* handled as a regular option: descriptor fetches and the get/set calls   *)
(* on named options are made only for the indices 1 .. option count - 1,   *)
(* in rising order and each index in at most one pass of the loop (one     *)
(* descriptor fetch, made before the option's get or set), never for       *)
(* index 0 and never for an index at or beyond the reported count.         *)
(***************************************************************************)
CountCalls == {i \in OptionCalls : log[i].idx = 0}

C22_OptionZeroIsTheCount ==
    LET fetches == Calls("sane_get_option_descriptor")
        counts == CountCalls
        named == OptionCalls \ counts
    IN  /\ Cardinality(counts) <= 1
        /\ \A c \in counts :
              /\ log[c].call = "control_option_get"
              /\ \A i \in fetches \cup named : c < i
        /\ (fetches \cup named # {}) =>
              \E c \in counts : log[c].status = GOOD
        /\ \A i \in fetches \cup named :
              log[i].idx >= 1 /\ log[i].idx < option_count_value
        /\ \A i, j \in fetches : i < j => log[i].idx < log[j].idx
        /\ \A i \in named :
              \E f \in fetches :
                  f < i /\ log[f].idx = log[i].idx /\ log[f].status = GOOD

\* The driver reported the largest count, every regular option was visited
\* (one was set, one was read) and the loop has ended.
C22_Witness ==
    /\ option_count_value = MaxOptionCount
    /\ Calls("sane_start") # {}
    /\ \A n \in 1..(MaxOptionCount - 1) :
          \E f \in GoodCalls("sane_get_option_descriptor") : log[f].idx = n
    /\ Calls("control_option_set") # {}
    /\ \E g \in GoodCalls("control_option_get") :
          log[g].idx # 0 /\ \A s \in Calls("control_option_set") : log[s].idx # log[g].idx

(***************************************************************************)
(* C23. In streaming mode, when the scan completes without error and the   *)
(* driver delivered the image it announced (lines * pixels_per_line * 3    *)
(* bytes, or any whole number of lines when it announced lines = -1), the  *)
(* size field of the header is 54 plus the number of pixel bytes sent      *)
(* after it, its width field is the width of the data and its height field *)
(* is minus the number of lines of the data.                               *)
(***************************************************************************)
\* The number a byte quadruple stands for (below 2^31).
U32Val(q) == q[1] + q[2] * 256 + q[3] * 65536 + q[4] * 16777216
\* lines = -1 as u32: the driver did not know the line count at the start.
IndeterminateLines == height = I32AsU32(-1)
BytesPerLine == PixelStride * U32Val(width)
PixelBytesSent == Len(ChunkBytes(sent))

DataMatchesGeometry ==
    IF IndeterminateLines
    THEN /\ BytesPerLine > 0
         /\ PixelBytesSent > 0
         /\ PixelBytesSent % BytesPerLine = 0
    ELSE PixelBytesSent = BytesPerLine * U32Val(height)

C23_HeaderDescribesData ==
    (mode = "stream" /\ pc = "done" /\ err = "" /\ DataMatchesGeometry) =>
        LET hdr == sent[1].bytes
        IN  /\ sent[1].kind = "header"
            /\ SubSeq(hdr, 3, 6) = U32(BMP_HEADER_SIZE + PixelBytesSent)
            /\ SubSeq(hdr, 19, 22) = width
            /\ BytesPerLine > 0 =>
                  SubSeq(hdr, 23, 26) = I32Neg(U32(PixelBytesSent \div BytesPerLine)).val

====
